---- MODULE Spec2Model ----
(***************************************************************************)
(* Lifecycle supervisor of the AuraFlow wallpaper daemon.                  *)
(*                                                                         *)
(* The model follows python/daemon_manager.py (the supervisor, run inside  *)
(* short-lived control processes), python/control.py (build_status) and    *)
(* the identity-file and shutdown code of python/wallpaper_daemon.py (the  *)
(* Renderer).  Control processes and Renderers are independent OS          *)
(* processes: every system call of a handler is one step, and steps of     *)
(* different processes interleave freely.                                  *)
(***************************************************************************)
EXTENDS Integers, FiniteSets, Sequences, TLC

\* ------------------------------------------------------------------ bounds
\* Renderer processes that may already exist when the first call is made.
NumInit == 2
\* Top-level calls one control process makes.
MaxCalls == 2

\* Every call launches at most one Renderer, so these are all the process
\* ids the process table hands out.
Pids == 1..(NumInit + MaxCalls)
InitPids == 1..NumInit
Ctrls == {"A", "B"}

\* Optional values are sets with at most one element: {} is Python's None.
\* The video_path / playback_speed arguments a start or restart is given:
\* none, a video, or a video and a speed.
LaunchArgs ==
    {[video |-> {}, speed |-> {}],
     [video |-> {"a"}, speed |-> {}],
     [video |-> {"a"}, speed |-> {2}]}

VARIABLES
    proc,      \* process table: the Renderer process behind each pid
    rargs,     \* --video argument of a Renderer that has not yet run main()
    pidFile,   \* PID_PATH: [kind |-> "absent" | "empty" | "corrupt" | "pid", pid]
    detached,  \* writers holding PID_PATH open on an inode that was unlinked
    config,    \* CONFIG_PATH: the persisted config document
    nextPid,   \* next pid the process table hands out
    ctl,       \* per control process: program counter, locals, module globals
    videos,    \* the video paths that resolve to an existing regular file
    plist,     \* AGENT_PLIST_PATH: "absent", "empty" or "complete"
    plistTmp,  \* AGENT_PLIST_PATH.with_suffix(".plist.tmp"), likewise
    agent,     \* the service manager: is the LaunchAgent loaded
    auto       \* per control process: where it is in the autostart calls

\* What the lifecycle calls and the Renderer leave alone.
extVars == <<videos, plist, plistTmp, agent, auto>>

\* What the autostart calls leave alone.
lifeVars == <<proc, rargs, pidFile, detached, config, nextPid, ctl>>

vars == <<lifeVars, extVars>>

\* ------------------------------------------------------------ identity file
Absent == [kind |-> "absent", pid |-> 0]
Empty == [kind |-> "empty", pid |-> 0]
Corrupt == [kind |-> "corrupt", pid |-> 0]
PidOf(p) == [kind |-> "pid", pid |-> p]

\* PID_PATH.exists()
Exists(f) == f.kind # "absent"

\* What a call hands back: a value, or an exception that propagates.
Ret(v) == [raised |-> FALSE, val |-> v]
Raise == [raised |-> TRUE, val |-> {}]

\* int(text.strip()) succeeds only on a decimal number; the empty text of a
\* file that a writer has opened but not yet written is none.
ParseOK(f) == f.kind = "pid"

\* read_pid without its except clause.
read_pid_uncaught(f) ==
    IF ~Exists(f) THEN Ret({})
    ELSE IF ParseOK(f) THEN Ret({f.pid}) ELSE Raise

\* daemon_manager.read_pid: None when the file is absent, and None again
\* when reading or parsing raises OSError / ValueError.
read_pid(f) ==
    IF ~Exists(f) THEN Ret({})
    ELSE IF ParseOK(f) THEN Ret({f.pid}) ELSE Ret({})

\* control.load_pid: the same read, done by build_status.
load_pid(f) ==
    IF ~Exists(f) THEN Ret({})
    ELSE IF ParseOK(f) THEN Ret({f.pid}) ELSE Ret({})

\* ------------------------------------------------------------ process table
\* The stages of a Renderer process that exists.
RendererStates == {"starting", "launching", "writing", "running",
                   "terminating", "willTerminate"}

\* A pid names a Renderer, or ("foreign") an unrelated process that the
\* system gave the pid of a Renderer that has gone.
AliveStates == RendererStates \cup {"foreign"}

\* os.kill(pid, 0) succeeds
Alive(p) == p \in Pids /\ proc[p] \in AliveStates

\* _list_daemon_pids: pgrep -f wallpaper_daemon.py
list_daemon_pids == {p \in Pids : proc[p] \in RendererStates}

\* daemon_running trusting the record without probing the process.
daemon_running_noprobe(f) ==
    IF read_pid(f).raised THEN Raise ELSE Ret(read_pid(f).val # {})

\* daemon_running: read_pid, then the os.kill(pid, 0) probe
daemon_running(f) ==
    IF read_pid(f).raised THEN Raise
    ELSE Ret(\E p \in read_pid(f).val : Alive(p))

\* os.kill(pid, SIGTERM) as the Renderer takes it: before run_daemon has
\* installed handle_shutdown the default action ends the process, after it
\* the handler starts NSApp.terminate_.  An unrelated process is taken to
\* have the default action.
AfterSigterm(st) ==
    IF st \in {"starting", "foreign"} THEN "dead"
    ELSE IF st \in {"launching", "writing", "running"} THEN "terminating"
    ELSE st

\* _terminate_pid without the escalation to SIGKILL.
AfterSigkill_none(st) == st

\* os.kill(pid, SIGKILL)
AfterSigkill(st) == IF st \in AliveStates THEN "dead" ELSE st

\* wallpaper_daemon.remove_pid_file
remove_pid_file(f) == IF Exists(f) THEN Absent ELSE f

\* ------------------------------------------------------------------ config
ControlConfig == [video_path |-> "a", playback_speed |-> 1, volume |-> 0,
                  autostart |-> "false"]

\* wallpaper_daemon.main: the document the Renderer writes over CONFIG_PATH
\* when it was given --video (args.speed or 1.0, args.volume or 0.0).
RendererConfig(a) ==
    [video_path |-> CHOOSE v \in a.video : TRUE,
     playback_speed |-> IF a.speed = {} THEN 1 ELSE CHOOSE s \in a.speed : TRUE,
     volume |-> 0,
     autostart |-> "missing"]

NoArgs == [video |-> {}, speed |-> {}]

\* _launch_signature: (config path, video, speed, volume, hash(config bytes)).
\* Two documents hash alike exactly when their bytes are equal, so the
\* fingerprint is carried as the document itself.
launch_signature(a, cfg) == {<<"CONFIG_PATH", a.video, a.speed, {}, cfg>>}

\* _LAST_LAUNCH_SIGNATURE: Optional[tuple] = None, a module global that
\* every control process initialises anew.
InitialSignature == {}

\* --------------------------------------------------------- control process
\* pc: where the process is in daemon_manager / control; op, args: the call
\* in progress (or the last one completed) and the one before it; sig,
\* keep, todo, target, newpid: locals; lastSig: _LAST_LAUNCH_SIGNATURE;
\* cl: which _cleanup_orphaned_daemons call is running; afterStop: whether
\* stop_daemon was called by restart_daemon; wdet: the handle _write_pid
\* holds is on an unlinked inode; listed, seen, swept: what the last reaper
\* sweep found in the process table, read from PID_PATH and signalled;
\* launched, signalled: what the call in progress has done; pOld, stale,
\* fileAt, quietAt, prevLive, prevQuiet, overlap: the state the call (and
\* the one before it) was made in; err: what raised; sweepErr: pgrep or a
\* signal failed during a reaper sweep of the call; idOps: what the call has
\* done to PID_PATH; tsig: the signals the _terminate_pid call in progress,
\* or just returned, has sent; sigPid: the Renderer this process launched
\* when it set the _LAST_LAUNCH_SIGNATURE it holds; probed: the pid that the
\* daemon_running of build_status read and probed.
IdleCtl ==
    [pc |-> "idle", op |-> "none", args |-> NoArgs, sig |-> {},
     lastSig |-> InitialSignature,
     cl |-> "none", keep |-> {}, listed |-> {}, seen |-> {}, todo |-> {},
     swept |-> {},
     target |-> {},
     afterStop |-> "return", newpid |-> {}, wdet |-> FALSE, ret |-> {},
     running |-> FALSE, spid |-> {}, calls |-> 0,
     prevOp |-> "none", prevArgs |-> NoArgs, prevRet |-> {},
     prevLive |-> FALSE, launched |-> {}, signalled |-> {}, pOld |-> {},
     stale |-> {}, fileAt |-> "none", quietAt |-> FALSE,
     prevQuiet |-> FALSE, overlap |-> FALSE,
     err |-> "none", sweepErr |-> FALSE, idOps |-> {}, tsig |-> {},
     sigPid |-> {}, probed |-> {}]

\* The autostart side of a control process.  pc: where it is in
\* enable_autostart / disable_autostart; h: the file its open handle on the
\* temporary descriptor refers to by now; cmds: the launchctl commands the
\* call has issued; unloadFailed, loadFailed: launchctl unload / load
\* returned nonzero; saw:
\* what was at AGENT_PLIST_PATH when launchctl load ran; existed, unlinked:
\* what disable_autostart found and did; enabled: the answer of
\* autostart_enabled; ovl: another autostart call ran during this one;
\* fresh: no other autostart call has begun since this one returned.
IdleAuto ==
    [pc |-> "idle", op |-> "none", h |-> "none", cmds |-> <<>>,
     unloadFailed |-> FALSE, loadFailed |-> FALSE, saw |-> "none",
     existed |-> FALSE,
     unlinked |-> FALSE, enabled |-> {}, calls |-> 0, ovl |-> FALSE,
     fresh |-> FALSE]

\* Autostart never enabled, the configured video in place.
InitExt ==
    /\ videos = {"a"}
    /\ plist = "absent"
    /\ plistTmp = "absent"
    /\ agent = "unloaded"
    /\ auto = [c \in Ctrls |-> IdleAuto]

\* How far a Renderer that exists at the outset has got.
Rank(st) == CASE st = "dead" -> 0 [] st = "launching" -> 1 [] OTHER -> 2

\* The first call finds any process table and any identity file: Renderers
\* that are starting up or running, recorded or not, and a file that is
\* absent, corrupt, or names a live or a dead process.  Pids carry no
\* meaning, so the file names pid 1 if any, and the other Renderers are
\* listed in the order of how far they have got.
Init ==
    /\ proc \in [Pids -> {"dead", "launching", "running"}]
    /\ \A p \in Pids \ InitPids : proc[p] = "dead"
    /\ rargs = [p \in Pids |-> NoArgs]
    /\ pidFile \in {Absent, Corrupt, PidOf(1)}
    /\ \A p, q \in InitPids :
          (p < q /\ (p > 1 \/ pidFile # PidOf(1))) =>
              Rank(proc[p]) <= Rank(proc[q])
    /\ detached = {}
    /\ config = ControlConfig
    /\ nextPid = NumInit + 1
    /\ ctl = [c \in Ctrls |-> IdleCtl]
    /\ InitExt

Set(c, r) == ctl' = [ctl EXCEPT ![c] = r]

At(c, label) == ctl[c].pc = label

\* An exception that nothing catches ends the control process (control.main
\* turns it into SystemExit).
Raised(r) == [r EXCEPT !.pc = "raised"]

\* The record of a call being made from the idle state.
Called(c, o, a, first) ==
    [ctl[c] EXCEPT !.pc = first, !.op = o, !.args = a,
                   !.prevOp = ctl[c].op, !.prevArgs = ctl[c].args,
                   !.prevRet = ctl[c].ret,
                   !.prevLive = \E p \in ctl[c].ret : proc[p] = "running",
                   !.prevQuiet = ctl[c].quietAt,
                   !.overlap = \E d \in Ctrls \ {c} :
                                  ctl[d].pc \notin {"idle", "raised"},
                   !.calls = @ + 1, !.launched = {}, !.signalled = {},
                   !.ret = {}, !.afterStop = "return",
                   !.running = FALSE, !.spid = {}, !.sig = {},
                   !.err = "none", !.sweepErr = FALSE, !.idOps = {},
                   !.tsig = {}, !.probed = {},
                   !.pOld = {p \in read_pid(pidFile).val : Alive(p)},
                   !.stale = {p \in read_pid(pidFile).val : ~Alive(p)},
                   !.fileAt = pidFile.kind,
                   !.quietAt = (list_daemon_pids = {})]

\* _cleanup_orphaned_daemons has returned: its locals are gone.
Swept(r) == [r EXCEPT !.keep = {}, !.listed = {}, !.seen = {}, !.swept = {}]

CanCall(c) == At(c, "idle") /\ ctl[c].calls < MaxCalls

\* A handle on PID_PATH stops naming the file once the file is unlinked.
Unlinked(cs) ==
    [c \in Ctrls |->
        IF cs[c].pc = "S_write2" THEN [cs[c] EXCEPT !.wdet = TRUE] ELSE cs[c]]

UnlinkedRenderers == detached \cup {p \in Pids : proc[p] = "writing"}

\* ---- top-level calls
CallStart(c) ==
    /\ CanCall(c)
    /\ \E a \in LaunchArgs : Set(c, Called(c, "start", a, "S_sig"))
    /\ UNCHANGED <<proc, rargs, pidFile, detached, config, nextPid, extVars>>

CallStop(c) ==
    /\ CanCall(c)
    /\ Set(c, Called(c, "stop", NoArgs, "ST_begin"))
    /\ UNCHANGED <<proc, rargs, pidFile, detached, config, nextPid, extVars>>

\* restart_daemon: stop_daemon(timeout=1.5), then start_daemon
CallRestart(c) ==
    /\ CanCall(c)
    /\ \E a \in LaunchArgs :
          Set(c, [Called(c, "restart", a, "ST_begin")
                    EXCEPT !.afterStop = "start"])
    /\ UNCHANGED <<proc, rargs, pidFile, detached, config, nextPid, extVars>>

CallStatus(c) ==
    /\ CanCall(c)
    /\ Set(c, Called(c, "status", NoArgs, "B_running"))
    /\ UNCHANGED <<proc, rargs, pidFile, detached, config, nextPid, extVars>>

\* ---- start_daemon
\* signature = _launch_signature(...); then _cleanup_orphaned_daemons()
LaunchSignature(c) ==
    /\ At(c, "S_sig")
    /\ Set(c, [ctl[c] EXCEPT !.sig = launch_signature(ctl[c].args, config),
                             !.pc = "C_list", !.cl = "pre", !.keep = {},
                             !.swept = {}])
    /\ UNCHANGED <<proc, rargs, pidFile, detached, config, nextPid, extVars>>

\* ---- _cleanup_orphaned_daemons
\* active = _list_daemon_pids()
ListDaemonPids(c) ==
    /\ At(c, "C_list")
    /\ Set(c, [ctl[c] EXCEPT !.listed = list_daemon_pids,
                             !.todo = list_daemon_pids, !.pc = "C_read"])
    /\ UNCHANGED <<proc, rargs, pidFile, detached, config, nextPid, extVars>>

\* The reaper forgetting the recorded pid.
cleanup_keep_nofile(keep, pid_from_file) == keep

\* if pid_from_file is not None: keep.add(pid_from_file)
cleanup_keep(keep, pid_from_file) == keep \cup pid_from_file

\* pid_from_file = read_pid(); ...; active - keep
CleanupReadPid(c) ==
    /\ At(c, "C_read")
    /\ LET r == read_pid(pidFile)
           k == cleanup_keep(ctl[c].keep, r.val)
       IN  Set(c, IF r.raised THEN Raised(ctl[c])
                  ELSE [ctl[c] EXCEPT !.keep = k, !.todo = @ \ k,
                                      !.seen = r.val, !.pc = "C_loop"])
    /\ UNCHANGED <<proc, rargs, pidFile, detached, config, nextPid, extVars>>

\* for pid in active - keep: _terminate_pid(pid, timeout=0.5); on leaving
\* the loop the caller of _cleanup_orphaned_daemons goes on.
CleanupNext(c) ==
    /\ At(c, "C_loop")
    /\ IF ctl[c].todo = {}
       THEN Set(c, [ctl[c] EXCEPT
                !.pc = CASE ctl[c].cl = "pre" -> "S_running"
                         [] ctl[c].cl = "post" -> "S_return"
                         [] OTHER -> "ST_return",
                !.cl = "none", !.tsig = {}])
       ELSE \E p \in ctl[c].todo :
                Set(c, [ctl[c] EXCEPT !.todo = @ \ {p}, !.target = {p},
                                      !.pc = "T_term", !.tsig = {}])
    /\ UNCHANGED <<proc, rargs, pidFile, detached, config, nextPid, extVars>>

\* ---- _terminate_pid
\* Where _terminate_pid returns to: stop_daemon or the reaper's loop.
Terminated(r) ==
    [r EXCEPT !.target = {},
              !.pc = IF r.cl = "none" THEN "ST_unlink" ELSE "C_loop"]

\* _terminate_pid going into its polling loop without having sent SIGTERM.
TerminateSigterm_skipped(c) ==
    /\ At(c, "T_term")
    /\ Set(c, [ctl[c] EXCEPT !.pc = "T_poll"])
    /\ UNCHANGED <<proc, rargs, pidFile, detached, config, nextPid, extVars>>

\* os.kill(pid, SIGTERM); OSError (no such process): return
TerminateSigterm(c) ==
    /\ At(c, "T_term")
    /\ \E p \in ctl[c].target :
          IF Alive(p)
          THEN /\ proc' = [proc EXCEPT ![p] = AfterSigterm(@)]
               /\ Set(c, [ctl[c] EXCEPT
                        !.pc = "T_poll", !.signalled = @ \cup {p},
                        !.tsig = {"SIGTERM"},
                        !.swept = IF ctl[c].cl = "none" THEN @ ELSE @ \cup {p}])
          ELSE /\ proc' = proc
               /\ Set(c, Terminated(ctl[c]))
    /\ UNCHANGED <<rargs, pidFile, detached, config, nextPid, extVars>>

\* the polling loop: os.kill(pid, 0) raises once the process is gone
TerminatePoll(c) ==
    /\ At(c, "T_poll")
    /\ \E p \in ctl[c].target : ~Alive(p)
    /\ Set(c, Terminated(ctl[c]))
    /\ UNCHANGED <<proc, rargs, pidFile, detached, config, nextPid, extVars>>

\* The polling loop of _terminate_pid without its deadline.
TerminateSigkill_never(c) ==
    /\ At(c, "T_poll")
    /\ FALSE
    /\ UNCHANGED vars

\* the deadline passes with the process still there: os.kill(pid, SIGKILL)
TerminateSigkill(c) ==
    /\ At(c, "T_poll")
    /\ \E p \in ctl[c].target :
          /\ Alive(p)
          /\ proc' = [proc EXCEPT ![p] = AfterSigkill(@)]
    /\ Set(c, [Terminated(ctl[c]) EXCEPT !.tsig = @ \cup {"SIGKILL"}])
    /\ UNCHANGED <<rargs, pidFile, detached, config, nextPid, extVars>>

\* ---- start_daemon, after the first sweep
\* start_daemon launching without looking at daemon_running().
StartCheckRunning_blind(c) ==
    /\ At(c, "S_running")
    /\ Set(c, [Swept(ctl[c]) EXCEPT !.pc = "S_launch"])
    /\ UNCHANGED <<proc, rargs, pidFile, detached, config, nextPid, extVars>>

\* if daemon_running(): ... else launch
StartCheckRunning(c) ==
    /\ At(c, "S_running")
    /\ LET r == daemon_running(pidFile)
       IN  Set(c, IF r.raised THEN Raised(ctl[c])
                  ELSE IF ~r.val
                       THEN [Swept(ctl[c]) EXCEPT !.pc = "S_launch"]
                  ELSE IF ctl[c].lastSig = ctl[c].sig
                       THEN [Swept(ctl[c]) EXCEPT !.pc = "S_existing"]
                       ELSE [Swept(ctl[c]) EXCEPT !.pc = "ST_begin",
                                                  !.afterStop = "start"])
    /\ UNCHANGED <<proc, rargs, pidFile, detached, config, nextPid, extVars>>

\* ... and PID_PATH.exists(): existing = read_pid(); return it unless None;
\* otherwise return restart_daemon(...)
StartExisting(c) ==
    /\ At(c, "S_existing")
    /\ LET r == read_pid(pidFile)
       IN  Set(c, IF Exists(pidFile) /\ r.raised THEN Raised(ctl[c])
                  ELSE IF Exists(pidFile) /\ r.val # {}
                       THEN [ctl[c] EXCEPT !.pc = "idle", !.ret = r.val]
                       ELSE [ctl[c] EXCEPT !.pc = "ST_begin",
                                           !.afterStop = "start"])
    /\ UNCHANGED <<proc, rargs, pidFile, detached, config, nextPid, extVars>>

\* pid = _launch_daemon(...): subprocess.Popen of the Renderer
LaunchDaemon(c) ==
    /\ At(c, "S_launch")
    /\ nextPid \in Pids
    /\ proc' = [proc EXCEPT ![nextPid] = "starting"]
    /\ rargs' = [rargs EXCEPT ![nextPid] = ctl[c].args]
    /\ nextPid' = nextPid + 1
    /\ Set(c, [ctl[c] EXCEPT !.newpid = {nextPid}, !.pc = "S_write",
                             !.launched = @ \cup {nextPid}])
    /\ UNCHANGED <<pidFile, detached, config, extVars>>

\* _write_pid, first half: PID_PATH.write_text opens the file for writing,
\* which creates or truncates it
WritePidOpen(c) ==
    /\ At(c, "S_write")
    /\ pidFile' = Empty
    /\ Set(c, [ctl[c] EXCEPT !.pc = "S_write2", !.wdet = FALSE,
                             !.idOps = @ \cup {"write"}])
    /\ UNCHANGED <<proc, rargs, detached, config, nextPid, extVars>>

\* _write_pid, second half: the text is written and the file closed; then
\* _LAST_LAUNCH_SIGNATURE = signature, _await_pid(pid, wait) (which only
\* waits) and _cleanup_orphaned_daemons(keep={pid})
WritePidWrite(c) ==
    /\ At(c, "S_write2")
    /\ pidFile' = IF ctl[c].wdet THEN pidFile
                  ELSE PidOf(CHOOSE p \in ctl[c].newpid : TRUE)
    /\ Set(c, [ctl[c] EXCEPT !.lastSig = ctl[c].sig, !.wdet = FALSE,
                             !.sigPid = ctl[c].newpid,
                             !.pc = "C_list", !.cl = "post",
                             !.keep = ctl[c].newpid, !.swept = {}])
    /\ UNCHANGED <<proc, rargs, detached, config, nextPid, extVars>>

\* return pid
StartReturn(c) ==
    /\ At(c, "S_return")
    /\ Set(c, [Swept(ctl[c]) EXCEPT !.pc = "idle", !.ret = ctl[c].newpid,
                                    !.newpid = {}])
    /\ UNCHANGED <<proc, rargs, pidFile, detached, config, nextPid, extVars>>

\* stop_daemon removing the autostart descriptor along with the identity
\* file.
StopUnlink_plist(c) ==
    /\ At(c, "ST_unlink")
    /\ pidFile' = Absent
    /\ plist' = "absent"
    /\ detached' = UnlinkedRenderers
    /\ ctl' = [Unlinked(ctl) EXCEPT ![c] =
                  [ctl[c] EXCEPT !.pc = "C_list", !.cl = "stop", !.keep = {},
                                 !.swept = {}]]
    /\ UNCHANGED <<proc, rargs, config, nextPid, videos, plistTmp, agent, auto>>

\* ---- failures of the collaborators
\* start_daemon carrying on after a failed spawn as if it had a pid.
spawn_error_ignored(r) ==
    [r EXCEPT !.pc = "S_write", !.err = "spawn", !.newpid = {nextPid}]

\* subprocess.Popen (or LOG_PATH.open) raises OSError: nothing in
\* _launch_daemon or start_daemon catches it
spawn_error(r) == [Raised(r) EXCEPT !.err = "spawn"]

LaunchFails(c) ==
    /\ At(c, "S_launch")
    /\ Set(c, spawn_error(ctl[c]))
    /\ UNCHANGED <<proc, rargs, pidFile, detached, config, nextPid, extVars>>

\* _list_daemon_pids letting the failure of pgrep through.
pgrep_failed_raises(r) == [Raised(r) EXCEPT !.sweepErr = TRUE]

\* _list_daemon_pids when subprocess.run raises OSError or pgrep exits with
\* a status other than 0 and 1: return set()
pgrep_failed(r) ==
    [r EXCEPT !.listed = {}, !.todo = {}, !.pc = "C_read", !.sweepErr = TRUE]

ListDaemonPidsFails(c) ==
    /\ At(c, "C_list")
    /\ Set(c, pgrep_failed(ctl[c]))
    /\ UNCHANGED <<proc, rargs, pidFile, detached, config, nextPid, extVars>>

\* _terminate_pid when os.kill(pid, SIGTERM) raises OSError although the
\* process is there (it may not be signalled): return
TerminateDenied(c) ==
    /\ At(c, "T_term")
    /\ \E p \in ctl[c].target : Alive(p)
    /\ Set(c, [Terminated(ctl[c]) EXCEPT
             !.sweepErr = IF ctl[c].cl = "none" THEN @ ELSE TRUE])
    /\ UNCHANGED <<proc, rargs, pidFile, detached, config, nextPid, extVars>>

\* daemon_running letting the PermissionError of the probe through.
probe_denied_raises(r) == [Raised(r) EXCEPT !.err = "probe"]

\* daemon_running when os.kill(pid, 0) raises PermissionError (the pid
\* belongs to a process this user may not signal): except OSError, return
\* False
probe_denied(r) ==
    [r EXCEPT !.running = FALSE, !.pc = "B_pid", !.err = "probe",
              !.probed = read_pid(pidFile).val]

\* build_status, "running": daemon_running() with the probe refused
StatusRunningDenied(c) ==
    /\ At(c, "B_running")
    /\ \E p \in read_pid(pidFile).val : Alive(p)
    /\ Set(c, probe_denied(ctl[c]))
    /\ UNCHANGED <<proc, rargs, pidFile, detached, config, nextPid, extVars>>

Failure(c) ==
    \/ LaunchFails(c)
    \/ ListDaemonPidsFails(c)
    \/ TerminateDenied(c)

\* ---- stop_daemon
\* stop_daemon leaving the remembered signature as it is.
forget_signature_kept(r) == r

\* global _LAST_LAUNCH_SIGNATURE; _LAST_LAUNCH_SIGNATURE = None
forget_signature(r) == [r EXCEPT !.lastSig = {}, !.sigPid = {}]

\* _LAST_LAUNCH_SIGNATURE = None; pid = read_pid(); if pid is not None:
\* _terminate_pid(pid, timeout)
StopBegin(c) ==
    /\ At(c, "ST_begin")
    /\ LET r == read_pid(pidFile)
       IN  Set(c, IF r.raised THEN Raised(ctl[c])
                  ELSE IF r.val = {}
                       THEN [forget_signature(ctl[c])
                               EXCEPT !.pc = "ST_unlink"]
                       ELSE [forget_signature(ctl[c])
                               EXCEPT !.target = r.val, !.pc = "T_term"])
    /\ UNCHANGED <<proc, rargs, pidFile, detached, config, nextPid, extVars>>

\* PID_PATH.unlink(missing_ok=True); then _cleanup_orphaned_daemons()
StopUnlink(c) ==
    /\ At(c, "ST_unlink")
    /\ pidFile' = Absent
    /\ detached' = UnlinkedRenderers
    /\ ctl' = [Unlinked(ctl) EXCEPT ![c] =
                  [ctl[c] EXCEPT !.pc = "C_list", !.cl = "stop", !.keep = {},
                                 !.swept = {}, !.tsig = {},
                                 !.idOps = @ \cup {"unlink"}]]
    /\ UNCHANGED <<proc, rargs, config, nextPid, extVars>>

\* return; inside restart_daemon, start_daemon(...) follows
StopReturn(c) ==
    /\ At(c, "ST_return")
    /\ Set(c, IF ctl[c].afterStop = "start"
              THEN [Swept(ctl[c]) EXCEPT !.pc = "S_sig", !.afterStop = "return"]
              ELSE [Swept(ctl[c]) EXCEPT !.pc = "idle"])
    /\ UNCHANGED <<proc, rargs, pidFile, detached, config, nextPid, extVars>>

\* ---- control.build_status
\* "running": daemon_running()
StatusRunning(c) ==
    /\ At(c, "B_running")
    /\ LET r == daemon_running(pidFile)
       IN  Set(c, IF r.raised THEN Raised(ctl[c])
                  ELSE [ctl[c] EXCEPT !.running = r.val, !.pc = "B_pid",
                                      !.probed = read_pid(pidFile).val])
    /\ UNCHANGED <<proc, rargs, pidFile, detached, config, nextPid, extVars>>

\* "pid": load_pid()
StatusPid(c) ==
    /\ At(c, "B_pid")
    /\ LET r == load_pid(pidFile)
       IN  Set(c, IF r.raised THEN Raised(ctl[c])
                  ELSE [ctl[c] EXCEPT !.spid = r.val, !.pc = "idle"])
    /\ UNCHANGED <<proc, rargs, pidFile, detached, config, nextPid, extVars>>

\* ------------------------------------------------------------- the Renderer
\* wallpaper_daemon.main: with --video the config document is written anew
RendererMain(p) ==
    /\ proc[p] = "starting"
    /\ proc' = [proc EXCEPT ![p] = "launching"]
    /\ config' = IF rargs[p].video # {} THEN RendererConfig(rargs[p])
                 ELSE config
    /\ rargs' = [rargs EXCEPT ![p] = NoArgs]
    /\ UNCHANGED <<pidFile, detached, nextPid, ctl, extVars>>

\* applicationDidFinishLaunching_ -> write_pid_file, first half: write_text
\* opens PID_PATH for writing
RendererOpenPid(p) ==
    /\ proc[p] = "launching"
    /\ proc' = [proc EXCEPT ![p] = "writing"]
    /\ pidFile' = Empty
    /\ detached' = detached \ {p}
    /\ UNCHANGED <<rargs, config, nextPid, ctl, extVars>>

\* write_pid_file, second half: str(os.getpid()) is written
RendererWritePid(p) ==
    /\ proc[p] = "writing"
    /\ proc' = [proc EXCEPT ![p] = "running"]
    /\ pidFile' = IF p \in detached THEN pidFile ELSE PidOf(p)
    /\ detached' = detached \ {p}
    /\ UNCHANGED <<rargs, config, nextPid, ctl, extVars>>

\* handle_shutdown -> NSApp.terminate_ -> applicationShouldTerminate_:
\* remove_pid_file()
ShouldTerminate(p) ==
    /\ proc[p] = "terminating"
    /\ proc' = [proc EXCEPT ![p] = "willTerminate"]
    /\ pidFile' = remove_pid_file(pidFile)
    /\ detached' = (UnlinkedRenderers \ {p})
    /\ ctl' = Unlinked(ctl)
    /\ UNCHANGED <<rargs, config, nextPid, extVars>>

\* applicationWillTerminate_: remove_pid_file() again, and the process exits
WillTerminate(p) ==
    /\ proc[p] = "willTerminate"
    /\ proc' = [proc EXCEPT ![p] = "dead"]
    /\ pidFile' = remove_pid_file(pidFile)
    /\ detached' = (UnlinkedRenderers \ {p})
    /\ ctl' = Unlinked(ctl)
    /\ UNCHANGED <<rargs, config, nextPid, extVars>>

\* ------------------------------------------------------------- autostart
\* _launchctl raising whatever ignore_errors says.
launchctl_strict(ok, ignore_errors) == IF ok THEN Ret(TRUE) ELSE Raise

\* _launchctl: True on exit status 0; otherwise False when ignore_errors,
\* else RuntimeError.
launchctl(ok, ignore_errors) ==
    IF ok THEN Ret(TRUE) ELSE IF ignore_errors THEN Ret(FALSE) ELSE Raise

\* autostart_enabled asking the service manager instead of the file system.
autostart_enabled_agent(f) == agent = "loaded"

\* autostart_enabled: AGENT_PLIST_PATH.exists()
autostart_enabled(f) == f # "absent"

AutoBusy(d) == auto[d].pc \notin {"idle", "raised"}

\* The record of an autostart call being made from the idle state, and
\* what the other processes' records note of it.
AutoCalled(c, o, first) ==
    [d \in Ctrls |->
        IF d = c
        THEN [auto[c] EXCEPT !.pc = first, !.op = o, !.calls = @ + 1,
                             !.cmds = <<>>, !.unloadFailed = FALSE,
                             !.loadFailed = FALSE,
                             !.saw = "none", !.existed = FALSE,
                             !.unlinked = FALSE, !.enabled = {},
                             !.fresh = FALSE,
                             !.ovl = \E e \in Ctrls \ {c} : AutoBusy(e)]
        ELSE [auto[d] EXCEPT !.fresh = FALSE,
                             !.ovl = IF AutoBusy(d) THEN TRUE ELSE @]]

AutoCanCall(c) == auto[c].pc = "idle" /\ auto[c].calls < MaxCalls

\* Open handles follow the inode: a rename of the temporary file onto
\* AGENT_PLIST_PATH carries the handles on it along and orphans the handles
\* on the file it replaces; an unlink orphans the handles on the file.
Renamed(h) == CASE h = "tmp" -> "final" [] h = "final" -> "lost" [] OTHER -> h

UnlinkedFinal(h) == IF h = "final" THEN "lost" ELSE h

AutoSet(c, r) == auto' = [auto EXCEPT ![c] = r]

\* ---- enable_autostart
CallEnable(c) ==
    /\ AutoCanCall(c)
    /\ auto' = AutoCalled(c, "enable", "E_open")
    /\ UNCHANGED <<videos, plist, plistTmp, agent, lifeVars>>

\* plist_path_tmp.open("wb"): the temporary file is created or truncated
EnableOpenTmp(c) ==
    /\ auto[c].pc = "E_open"
    /\ plistTmp' = "empty"
    /\ AutoSet(c, [auto[c] EXCEPT !.pc = "E_dump", !.h = "tmp"])
    /\ UNCHANGED <<videos, plist, agent, lifeVars>>

\* plistlib.dump(plist, handle) and the end of the with block: the
\* descriptor reaches the file the handle refers to
EnableDump(c) ==
    /\ auto[c].pc = "E_dump"
    /\ plistTmp' = IF auto[c].h = "tmp" THEN "complete" ELSE plistTmp
    /\ plist' = IF auto[c].h = "final" THEN "complete" ELSE plist
    /\ AutoSet(c, [auto[c] EXCEPT !.pc = "E_replace", !.h = "none"])
    /\ UNCHANGED <<videos, agent, lifeVars>>

\* plist_path_tmp.replace(AGENT_PLIST_PATH); FileNotFoundError when the
\* temporary file is not there
EnableReplace(c) ==
    /\ auto[c].pc = "E_replace"
    /\ IF plistTmp = "absent"
       THEN /\ AutoSet(c, [auto[c] EXCEPT !.pc = "raised"])
            /\ UNCHANGED <<plist, plistTmp>>
       ELSE /\ plist' = plistTmp
            /\ plistTmp' = "absent"
            /\ auto' = [d \in Ctrls |->
                          IF d = c THEN [auto[c] EXCEPT !.pc = "E_unload"]
                          ELSE [auto[d] EXCEPT !.h = Renamed(@)]]
    /\ UNCHANGED <<videos, agent, lifeVars>>

\* _launchctl(["unload", path], ignore_errors=True)
EnableUnload(c) ==
    /\ auto[c].pc = "E_unload"
    /\ \E ok \in BOOLEAN :
          /\ agent' = IF ok THEN "unloaded" ELSE agent
          /\ AutoSet(c, [auto[c] EXCEPT
                   !.pc = IF launchctl(ok, TRUE).raised THEN "raised"
                          ELSE "E_load",
                   !.cmds = Append(@, "unload"),
                   !.unloadFailed = ~ok])
    /\ UNCHANGED <<videos, plist, plistTmp, lifeVars>>

\* _launchctl(["load", "-w", path])
EnableLoad(c) ==
    /\ auto[c].pc = "E_load"
    /\ \E ok \in BOOLEAN :
          /\ agent' = IF ok /\ plist = "complete" THEN "loaded" ELSE agent
          /\ AutoSet(c, [auto[c] EXCEPT
                   !.pc = IF launchctl(ok, FALSE).raised THEN "raised"
                          ELSE "idle",
                   !.cmds = Append(@, "load"),
                   !.saw = plist,
                   !.loadFailed = ~ok,
                   !.fresh = ~launchctl(ok, FALSE).raised])
    /\ UNCHANGED <<videos, plist, plistTmp, lifeVars>>

\* ---- disable_autostart
CallDisable(c) ==
    /\ AutoCanCall(c)
    /\ auto' = AutoCalled(c, "disable", "D_exists")
    /\ UNCHANGED <<videos, plist, plistTmp, agent, lifeVars>>

\* if AGENT_PLIST_PATH.exists(): ... else return
DisableExists(c) ==
    /\ auto[c].pc = "D_exists"
    /\ AutoSet(c, IF plist # "absent"
                  THEN [auto[c] EXCEPT !.pc = "D_unload", !.existed = TRUE]
                  ELSE [auto[c] EXCEPT !.pc = "idle", !.fresh = TRUE])
    /\ UNCHANGED <<videos, plist, plistTmp, agent, lifeVars>>

\* _launchctl(["unload", path], ignore_errors=True)
DisableUnload(c) ==
    /\ auto[c].pc = "D_unload"
    /\ \E ok \in BOOLEAN :
          /\ agent' = IF ok THEN "unloaded" ELSE agent
          /\ AutoSet(c, [auto[c] EXCEPT
                   !.pc = IF launchctl(ok, TRUE).raised THEN "raised"
                          ELSE "D_unlink",
                   !.cmds = Append(@, "unload"),
                   !.unloadFailed = ~ok])
    /\ UNCHANGED <<videos, plist, plistTmp, lifeVars>>

\* AGENT_PLIST_PATH.unlink(missing_ok=True)
DisableUnlink(c) ==
    /\ auto[c].pc = "D_unlink"
    /\ plist' = "absent"
    /\ auto' = [d \in Ctrls |->
                  IF d = c THEN [auto[c] EXCEPT !.pc = "idle",
                                                !.unlinked = TRUE,
                                                !.fresh = TRUE]
                  ELSE [auto[d] EXCEPT !.h = UnlinkedFinal(@)]]
    /\ UNCHANGED <<videos, plistTmp, agent, lifeVars>>

\* ---- autostart_enabled
AutostartEnabled(c) ==
    /\ AutoCanCall(c)
    /\ auto' = [AutoCalled(c, "enabled", "idle") EXCEPT
                  ![c].enabled = {autostart_enabled(plist)}]
    /\ UNCHANGED <<videos, plist, plistTmp, agent, lifeVars>>

Autostart(c) ==
    \/ CallEnable(c)
    \/ EnableOpenTmp(c)
    \/ EnableDump(c)
    \/ EnableReplace(c)
    \/ EnableUnload(c)
    \/ EnableLoad(c)
    \/ CallDisable(c)
    \/ DisableExists(c)
    \/ DisableUnload(c)
    \/ DisableUnlink(c)
    \/ AutostartEnabled(c)

\* ------------------------------------------------------------ specification
Control(c) ==
    \/ CallStart(c)
    \/ CallStop(c)
    \/ CallRestart(c)
    \/ CallStatus(c)
    \/ LaunchSignature(c)
    \/ ListDaemonPids(c)
    \/ CleanupReadPid(c)
    \/ CleanupNext(c)
    \/ TerminateSigterm(c)
    \/ TerminatePoll(c)
    \/ TerminateSigkill(c)
    \/ StartCheckRunning(c)
    \/ StartExisting(c)
    \/ LaunchDaemon(c)
    \/ WritePidOpen(c)
    \/ WritePidWrite(c)
    \/ StartReturn(c)
    \/ StopBegin(c)
    \/ StopUnlink(c)
    \/ StopReturn(c)
    \/ StatusRunning(c)
    \/ StatusPid(c)

Renderer(p) ==
    \/ RendererMain(p)
    \/ RendererOpenPid(p)
    \/ RendererWritePid(p)
    \/ ShouldTerminate(p)
    \/ WillTerminate(p)

\* One control process at a time (calls never overlap); Renderers run
\* beside it.
Next == Control("A") \/ \E p \in Pids : Renderer(p)

Spec == Init /\ [][Next]_vars

\* Two fresh control processes, each calling start_daemon once, on a system
\* that is stopped (the identity file absent or left over from a dead
\* daemon).  A fresh process remembers no signature, so the branch of
\* start_daemon that returns the existing pid is never taken.

InitRace ==
    /\ proc = [p \in Pids |-> "dead"]
    /\ rargs = [p \in Pids |-> NoArgs]
    /\ pidFile \in {Absent, PidOf(1)}
    /\ detached = {}
    /\ config = ControlConfig
    /\ nextPid = NumInit + 1
    /\ ctl = [c \in Ctrls |-> IdleCtl]
    /\ InitExt

RaceStart(c) ==
    /\ At(c, "idle")
    /\ ctl[c].op = "none"
    /\ Set(c, Called(c, "start", NoArgs, "S_sig"))
    /\ UNCHANGED <<proc, rargs, pidFile, detached, config, nextPid, extVars>>

RaceControl(c) ==
    \/ RaceStart(c)
    \/ LaunchSignature(c)
    \/ ListDaemonPids(c)
    \/ CleanupReadPid(c)
    \/ CleanupNext(c)
    \/ TerminateSigterm(c)
    \/ TerminatePoll(c)
    \/ TerminateSigkill(c)
    \/ StartCheckRunning(c)
    \/ LaunchDaemon(c)
    \/ WritePidOpen(c)
    \/ WritePidWrite(c)
    \/ StartReturn(c)
    \/ StopBegin(c)
    \/ StopUnlink(c)
    \/ StopReturn(c)

NextRace ==
    \/ \E c \in Ctrls : RaceControl(c)
    \/ \E p \in Pids : Renderer(p)

SpecRace == InitRace /\ [][NextRace]_vars

\* A control process that makes a single start, stop or restart call, from
\* any process table and identity file.
FirstCall(c) == ctl[c].op = "none"

\* The steps inside such a call.
Steps(c) ==
    \/ LaunchSignature(c)
    \/ ListDaemonPids(c)
    \/ CleanupReadPid(c)
    \/ CleanupNext(c)
    \/ TerminateSigterm(c)
    \/ TerminatePoll(c)
    \/ TerminateSigkill(c)
    \/ StartCheckRunning(c)
    \/ LaunchDaemon(c)
    \/ WritePidOpen(c)
    \/ WritePidWrite(c)
    \/ StartReturn(c)
    \/ StopBegin(c)
    \/ StopUnlink(c)
    \/ StopReturn(c)

Lifecycle(c) ==
    \/ FirstCall(c) /\ CallStart(c)
    \/ FirstCall(c) /\ CallStop(c)
    \/ FirstCall(c) /\ CallRestart(c)
    \/ Steps(c)

\* One control process in the lifecycle calls while another is in the
\* autostart calls; at the outset the recorded Renderer is dead, starting up
\* or running, and there is no other.
InitFrame ==
    /\ proc \in [Pids -> {"dead", "launching", "running"}]
    /\ \A p \in Pids \ {1} : proc[p] = "dead"
    /\ rargs = [p \in Pids |-> NoArgs]
    /\ pidFile = PidOf(1)
    /\ detached = {}
    /\ config = ControlConfig
    /\ nextPid = NumInit + 1
    /\ ctl = [c \in Ctrls |-> IdleCtl]
    /\ InitExt

NextFrame ==
    \/ Lifecycle("A")
    \/ \E p \in Pids : Renderer(p)
    \/ Autostart("B")

SpecFrame == InitFrame /\ [][NextFrame]_vars

\* A single lifecycle call of one control process when the Process
\* Launcher, pgrep and os.kill may fail.  At the outset Renderer 1 is dead,
\* starting up or running, and is recorded or a stray; the other Renderers
\* are dead or running strays.
InitFail ==
    /\ proc \in [Pids -> {"dead", "launching", "running"}]
    /\ \A p \in Pids \ InitPids : proc[p] = "dead"
    /\ \A p \in InitPids \ {1} : proc[p] # "launching"
    /\ \A p, q \in InitPids \ {1} : p < q => Rank(proc[p]) <= Rank(proc[q])
    /\ rargs = [p \in Pids |-> NoArgs]
    /\ pidFile \in {Absent, PidOf(1)}
    /\ detached = {}
    /\ config = ControlConfig
    /\ nextPid = NumInit + 1
    /\ ctl = [c \in Ctrls |-> IdleCtl]
    /\ InitExt

NextFail ==
    \/ Lifecycle("A")
    \/ Failure("A")
    \/ \E p \in Pids : Renderer(p)

SpecFail == InitFail /\ [][NextFail]_vars

\* One control process making its calls one after another on a system that
\* has at most one Renderer at the outset: dead, starting up or running, and
\* recorded in the identity file or not.
InitSeq ==
    /\ proc \in [Pids -> {"dead", "launching", "running"}]
    /\ \A p \in Pids \ {1} : proc[p] = "dead"
    /\ rargs = [p \in Pids |-> NoArgs]
    /\ pidFile \in {Absent, PidOf(1)}
    /\ detached = {}
    /\ config = ControlConfig
    /\ nextPid = NumInit + 1
    /\ ctl = [c \in Ctrls |-> IdleCtl]
    /\ InitExt

SpecSeq == InitSeq /\ [][Next]_vars

\* A control process that asks for the status, repeatedly and with a probe
\* that may be refused, while another one makes a start, stop or restart
\* call and the Renderers run.
NextProbe ==
    \/ CallStatus("A")
    \/ StatusRunning("A")
    \/ StatusRunningDenied("A")
    \/ StatusPid("A")
    \/ Lifecycle("B")
    \/ \E p \in Pids : Renderer(p)

SpecProbe == InitSeq /\ [][NextProbe]_vars

\* A single lifecycle call made when the identity file is stale and its pid
\* has been given to an unrelated process; the other Renderers are dead or
\* running strays.
InitStale ==
    /\ proc \in [Pids -> {"dead", "running", "foreign"}]
    /\ proc[1] = "foreign"
    /\ \A p \in Pids \ InitPids : proc[p] = "dead"
    /\ \A p \in InitPids \ {1} : proc[p] # "foreign"
    /\ \A p, q \in InitPids \ {1} : p < q => Rank(proc[p]) <= Rank(proc[q])
    /\ rargs = [p \in Pids |-> NoArgs]
    /\ pidFile = PidOf(1)
    /\ detached = {}
    /\ config = ControlConfig
    /\ nextPid = NumInit + 1
    /\ ctl = [c \in Ctrls |-> IdleCtl]
    /\ InitExt

NextStale ==
    \/ Lifecycle("A")
    \/ \E p \in Pids : Renderer(p)

SpecStale == InitStale /\ [][NextStale]_vars

\* ---- control.py commands
\* wallpaper_utils.validate_video: the resolved path, or FileNotFoundError /
\* ValueError when it is not an existing regular file.
validate_video(path) == IF path \in videos THEN Ret({path}) ELSE Raise

\* control.load_config: {**DEFAULT_CONFIG, **data}, a missing autostart key
\* reads as False.
load_config(cfg) ==
    [cfg EXCEPT !.autostart = IF @ = "missing" THEN "false" ELSE @]

\* The --video / --speed arguments a command is given.
CmdArgs == LaunchArgs \cup {[video |-> {}, speed |-> {2}]}

\* What command_start holds as config when it reaches line 79: each
\* update_config loads the document, applies the update and saves it.
StartConfig(a) ==
    LET c1 == IF a.video = {} THEN load_config(config)
              ELSE [load_config(config)
                      EXCEPT !.video_path = CHOOSE v \in a.video : TRUE]
    IN  IF a.speed = {} THEN c1
        ELSE [c1 EXCEPT !.playback_speed = CHOOSE x \in a.speed : TRUE]

\* control.command_start up to its start_daemon call: validate_video only
\* when --video is given, the updates of the config document, and the abort
\* when no video is configured.
CmdStart(c) ==
    /\ FirstCall(c)
    /\ CanCall(c)
    /\ \E a \in CmdArgs :
          LET cfg == StartConfig(a)
          IN  IF \E v \in a.video : validate_video(v).raised
              THEN /\ Set(c, [Raised(ctl[c]) EXCEPT !.err = "video"])
                   /\ UNCHANGED config
              ELSE /\ config' = IF a = NoArgs THEN config ELSE cfg
                   /\ IF cfg.video_path = ""
                      THEN Set(c, [Raised(ctl[c]) EXCEPT !.err = "novideo"])
                      ELSE Set(c, Called(c, "start",
                                         [video |-> {cfg.video_path},
                                          speed |-> {cfg.playback_speed}],
                                         "S_sig"))
    /\ UNCHANGED <<proc, rargs, pidFile, detached, nextPid, extVars>>

\* control.command_set_video up to its build_status call: validate_video,
\* update_config, and restart_daemon(video_path=...) if daemon_running().
CmdSetVideo(c) ==
    /\ FirstCall(c)
    /\ CanCall(c)
    /\ \E v \in {"a"} :
          IF validate_video(v).raised
          THEN /\ Set(c, [Raised(ctl[c]) EXCEPT !.err = "video"])
               /\ UNCHANGED config
          ELSE LET cfg == [load_config(config) EXCEPT !.video_path = v]
               IN  /\ config' = cfg
                   /\ IF daemon_running(pidFile).val
                      THEN Set(c, [Called(c, "restart",
                                          [video |-> {v},
                                           speed |-> {cfg.playback_speed}],
                                          "ST_begin")
                                     EXCEPT !.afterStop = "start"])
                      ELSE Set(c, [ctl[c] EXCEPT !.op = "set-video",
                                                 !.calls = @ + 1])
    /\ UNCHANGED <<proc, rargs, pidFile, detached, nextPid, extVars>>

\* command_set_speed restarting whether or not a daemon is running.
CmdSetSpeed_always(c) ==
    /\ FirstCall(c)
    /\ CanCall(c)
    /\ config' = [load_config(config) EXCEPT !.playback_speed = 2]
    /\ Set(c, [Called(c, "restart", [video |-> {}, speed |-> {2}], "ST_begin")
                 EXCEPT !.afterStop = "start"])
    /\ UNCHANGED <<proc, rargs, pidFile, detached, nextPid, extVars>>

\* control.command_set_speed up to its build_status call: update_config, and
\* restart_daemon(playback_speed=...) if daemon_running(); no video is
\* passed and none is looked at.
CmdSetSpeed(c) ==
    /\ FirstCall(c)
    /\ CanCall(c)
    /\ \E x \in {2} :
          LET cfg == [load_config(config) EXCEPT !.playback_speed = x]
          IN  /\ config' = cfg
              /\ IF daemon_running(pidFile).val
                 THEN Set(c, [Called(c, "restart",
                                     [video |-> {}, speed |-> {x}],
                                     "ST_begin")
                                EXCEPT !.afterStop = "start"])
                 ELSE Set(c, [ctl[c] EXCEPT !.op = "set-speed",
                                            !.calls = @ + 1])
    /\ UNCHANGED <<proc, rargs, pidFile, detached, nextPid, extVars>>

Command(c) ==
    \/ CmdStart(c)
    \/ CmdSetVideo(c)
    \/ CmdSetSpeed(c)

\* The video a Renderer plays: --video if it was given one, else the
\* video_path of the config document (wallpaper_daemon.main).
EffectiveVideo(a, cfg) ==
    IF a.video # {} THEN a.video ELSE {cfg.video_path}

\* One command of one control process.  At the outset the config document
\* names a video or none and has autostart on or off, the file it names is
\* there or has gone, and the
\* recorded Renderer, if any, is running or dead; other Renderers are dead
\* or running strays.
InitCmd ==
    /\ proc \in [Pids -> {"dead", "running"}]
    /\ \A p \in Pids \ InitPids : proc[p] = "dead"
    /\ \A p, q \in InitPids \ {1} : p < q => Rank(proc[p]) <= Rank(proc[q])
    /\ rargs = [p \in Pids |-> NoArgs]
    /\ pidFile \in {Absent, PidOf(1)}
    /\ detached = {}
    /\ config \in {[ControlConfig EXCEPT !.video_path = v, !.autostart = a] :
                        v \in {"", "a"}, a \in {"false", "true"}}
    /\ nextPid = NumInit + 1
    /\ ctl = [c \in Ctrls |-> IdleCtl]
    /\ videos \in SUBSET {"a"}
    /\ plist = "absent"
    /\ plistTmp = "absent"
    /\ agent = "unloaded"
    /\ auto = [c \in Ctrls |-> IdleAuto]

NextCmd ==
    \/ Command("A")
    \/ Steps("A")
    \/ \E p \in Pids : Renderer(p)

SpecCmd == InitCmd /\ [][NextCmd]_vars

\* ---- control.command_autostart
\* No set-autostart command is in progress.
AutoQuiet ==
    \A d \in Ctrls : ctl[d].pc \in {"idle", "raised"} /\ ~AutoBusy(d)

\* config = load_config(); if args.state == "on": ... else: ...  The
\* commands are run one after another.
CmdAutostart(c) ==
    /\ AutoQuiet
    /\ At(c, "idle")
    /\ auto[c].pc = "idle"
    /\ ctl[c].calls < MaxCalls
    /\ \E st \in {"AS_on", "AS_off"} :
          Set(c, [ctl[c] EXCEPT !.pc = st, !.op = "set-autostart",
                                !.calls = @ + 1])
    /\ UNCHANGED <<proc, rargs, pidFile, detached, config, nextPid, extVars>>

\* enable_autostart() / disable_autostart() is entered
CmdAutostartCall(c) ==
    /\ auto[c].calls < ctl[c].calls
    /\ \/ At(c, "AS_on") /\ CallEnable(c)
       \/ At(c, "AS_off") /\ CallDisable(c)

\* the call has returned: config = update_config({"autostart": ...})
CmdAutostartSave(c) ==
    /\ ctl[c].pc \in {"AS_on", "AS_off"}
    /\ auto[c].calls = ctl[c].calls
    /\ auto[c].pc = "idle"
    /\ config' = [load_config(config) EXCEPT
                    !.autostart = IF At(c, "AS_on") THEN "true" ELSE "false"]
    /\ Set(c, [ctl[c] EXCEPT !.pc = "idle"])
    /\ UNCHANGED <<proc, rargs, pidFile, detached, nextPid, extVars>>

\* the call has raised: main turns the exception into SystemExit, and
\* update_config is not reached
CmdAutostartRaised(c) ==
    /\ ctl[c].pc \in {"AS_on", "AS_off"}
    /\ auto[c].pc = "raised"
    /\ Set(c, [Raised(ctl[c]) EXCEPT !.err = "autostart"])
    /\ UNCHANGED <<proc, rargs, pidFile, detached, config, nextPid, extVars>>

\* The steps of enable_autostart and disable_autostart.
AutoSteps(c) ==
    \/ EnableOpenTmp(c)
    \/ EnableDump(c)
    \/ EnableReplace(c)
    \/ EnableUnload(c)
    \/ EnableLoad(c)
    \/ DisableExists(c)
    \/ DisableUnload(c)
    \/ DisableUnlink(c)

\* set-autostart commands run one after another by the control processes,
\* from a state in which the autostart flag of the config document and the
\* descriptor file agree.
InitAutoCmd ==
    /\ proc = [p \in Pids |-> "dead"]
    /\ rargs = [p \in Pids |-> NoArgs]
    /\ pidFile = Absent
    /\ detached = {}
    /\ plist \in {"absent", "complete"}
    /\ config = [ControlConfig EXCEPT
                   !.autostart = IF autostart_enabled(plist) THEN "true"
                                 ELSE "false"]
    /\ nextPid = NumInit + 1
    /\ ctl = [c \in Ctrls |-> IdleCtl]
    /\ videos = {"a"}
    /\ plistTmp = "absent"
    /\ agent = IF plist = "complete" THEN "loaded" ELSE "unloaded"
    /\ auto = [c \in Ctrls |-> IdleAuto]

NextAutoCmd ==
    \E c \in Ctrls :
        \/ CmdAutostart(c)
        \/ CmdAutostartCall(c)
        \/ AutoSteps(c)
        \/ CmdAutostartSave(c)
        \/ CmdAutostartRaised(c)

SpecAutoCmd == InitAutoCmd /\ [][NextAutoCmd]_vars

\* The two control processes of SpecRace when a control process that is
\* inside a call goes on running (its sleeps and waits are bounded by
\* deadlines); nothing is assumed of the Renderers.
SpecLive ==
    /\ InitRace
    /\ [][NextRace]_vars
    /\ \A c \in Ctrls : WF_vars(RaceControl(c))

\* The Autostart Registrar alone: control processes that enable, disable and
\* query autostart, starting from any descriptor, any left-over temporary
\* file and any registration.
InitAuto ==
    /\ proc = [p \in Pids |-> "dead"]
    /\ rargs = [p \in Pids |-> NoArgs]
    /\ pidFile = Absent
    /\ detached = {}
    /\ config = ControlConfig
    /\ nextPid = NumInit + 1
    /\ ctl = [c \in Ctrls |-> IdleCtl]
    /\ videos = {"a"}
    /\ plist \in {"absent", "empty", "complete"}
    /\ plistTmp \in {"absent", "empty", "complete"}
    /\ agent \in {"unloaded", "loaded"}
    /\ auto = [c \in Ctrls |-> IdleAuto]

NextAuto == \E c \in Ctrls : Autostart(c)

SpecAuto == InitAuto /\ [][NextAuto]_vars

\* ------------------------------------------------------------------ claims
Live == {p \in Pids : Alive(p)}

\* The control process has returned from a call of one of the given kinds.
Returned(c, ops) == At(c, "idle") /\ ctl[c].op \in ops

\* A writer is between opening PID_PATH and writing its pid into it.
WriterAtWork ==
    \/ \E p \in Pids : proc[p] = "writing" /\ p \notin detached
    \/ \E c \in Ctrls : At(c, "S_write2") /\ ~ctl[c].wdet

\* C1: after any sequence of completed, non-overlapping start / stop /
\* restart calls at most one Renderer is alive, and the identity file holds
\* the pid of the one that is.
C1_OneRecordedInstance ==
    Returned("A", {"start", "stop", "restart"}) =>
        /\ Cardinality(Live) <= 1
        /\ \A p \in Live : pidFile = PidOf(p)

\* C2: once two overlapping start_daemon calls of independent control
\* processes have both returned, exactly one Renderer is alive and the
\* identity file holds its pid.
C2_RaceLeavesOne ==
    (/\ Returned("A", {"start"})
     /\ Returned("B", {"start"})
     /\ ctl["A"].overlap \/ ctl["B"].overlap) =>
        /\ Cardinality(Live) = 1
        /\ \A p \in Live : pidFile = PidOf(p)

\* C3: build_status made right after a start_daemon that returned p reports
\* running = true and pid = p.
C3_StartThenStatus ==
    (Returned("A", {"status"}) /\ ctl["A"].prevOp = "start") =>
        /\ ctl["A"].running
        /\ ctl["A"].spid = ctl["A"].prevRet

\* C4: a second start_daemon with the parameters of the first (itself made
\* with nothing running), made while the instance the first launched is up
\* and running, returns the same pid, launches nothing, signals nothing and
\* leaves exactly one live Renderer.
C4_StartIdempotent ==
    (/\ Returned("A", {"start"})
     /\ ctl["A"].prevOp = "start"
     /\ ctl["A"].prevArgs = ctl["A"].args
     /\ ctl["A"].prevQuiet
     /\ ctl["A"].prevLive) =>
        /\ ctl["A"].ret = ctl["A"].prevRet
        /\ ctl["A"].launched = {}
        /\ ctl["A"].signalled = {}
        /\ Cardinality(Live) = 1

\* C5: restart_daemon called while the recorded Renderer p_old is alive
\* returns a pid other than p_old, and p_old is dead when it returns.
C5_RestartReplaces ==
    (Returned("A", {"restart"}) /\ ctl["A"].pOld # {}) =>
        /\ ctl["A"].ret # {}
        /\ ctl["A"].ret \cap ctl["A"].pOld = {}
        /\ \A p \in ctl["A"].pOld : ~Alive(p)

C5_Witness ==
    /\ Returned("A", {"restart"})
    /\ ctl["A"].pOld # {}
    /\ ctl["A"].pOld \subseteq ctl["A"].signalled
    /\ \E p \in ctl["A"].ret : Alive(p)

\* C6: when stop_daemon returns the identity file is absent, whatever the
\* state it was called in.
C6_StopClearsIdentity ==
    Returned("A", {"stop"}) => pidFile = Absent

SweepDone(c) == ctl[c].pc \in {"S_running", "S_return", "ST_return"}

\* The keep argument of the sweep that has just finished.
KeepArg(c) == IF ctl[c].pc = "S_return" THEN ctl[c].newpid ELSE {}

C9_NoPartialRead ==
    WriterAtWork => (~Exists(pidFile) \/ read_pid(pidFile).val # {})

\* What start_daemon, stop_daemon and build_status do when nothing runs.
StoppedBehaviour(c) ==
    /\ ctl[c].op = "start" =>
          /\ Cardinality(ctl[c].launched) = 1
          /\ ctl[c].ret = ctl[c].launched
          /\ ctl[c].signalled = {}
          /\ \E p \in ctl[c].ret : pidFile \in {PidOf(p), Empty}
    /\ ctl[c].op = "stop" =>
          /\ ctl[c].launched = {}
          /\ ctl[c].signalled = {}
          /\ pidFile = Absent
    /\ ctl[c].op = "status" =>
          /\ ~ctl[c].running
          /\ ctl[c].spid = {}

\* C10: a corrupt identity file is treated like an absent one: read_pid and
\* load_pid return None, daemon_running returns false, no call raises, and
\* start_daemon, stop_daemon and build_status called with nothing running
\* do from a corrupt file what they do from an absent one.
C10_CorruptAsAbsent ==
    /\ read_pid(Corrupt) = read_pid(Absent)
    /\ load_pid(Corrupt) = load_pid(Absent)
    /\ daemon_running(Corrupt) = Ret(FALSE)
    /\ ctl["A"].pc # "raised"
    /\ (/\ Returned("A", {"start", "stop", "status"})
        /\ ctl["A"].fileAt \in {"corrupt", "absent"}
        /\ ctl["A"].quietAt
        /\ ctl["A"].calls = 1) => StoppedBehaviour("A")

C10_Witness ==
    /\ Returned("A", {"start"})
    /\ ctl["A"].fileAt = "corrupt"
    /\ ctl["A"].quietAt
    /\ ctl["A"].calls = 1
    /\ \E p \in ctl["A"].ret : pidFile = PidOf(p) /\ Alive(p)

\* An autostart call of c has returned, no other autostart call ran during
\* it, and none has begun since.
AutoAlone(c, o) ==
    /\ auto[c].pc = "idle"
    /\ auto[c].op = o
    /\ auto[c].fresh
    /\ ~auto[c].ovl

\* C13: after enable_autostart returns, autostart_enabled() is true and the
\* descriptor file is there, complete; after disable_autostart returns,
\* autostart_enabled() is false and the descriptor file is gone; from any
\* prior state and after any sequence of earlier calls.
C13_AutostartRoundTrip ==
    \A c \in Ctrls :
        /\ AutoAlone(c, "enable") =>
              autostart_enabled(plist) /\ plist = "complete"
        /\ AutoAlone(c, "disable") =>
              ~autostart_enabled(plist) /\ plist = "absent"

C13_Witness ==
    /\ AutoAlone("A", "enable")
    /\ auto["A"].calls = MaxCalls
    /\ auto["B"].op = "disable"
    /\ auto["B"].unlinked
    /\ plist = "complete"

\* C14: enable_autostart issues unload and then load and nothing else, and
\* when load runs the descriptor at AGENT_PLIST_PATH is complete, neither
\* missing nor half-written.
C14_LoadSeesDescriptor ==
    \A c \in Ctrls :
        auto[c].op = "enable" =>
            /\ auto[c].cmds \in {<<>>, <<"unload">>, <<"unload", "load">>}
            /\ auto[c].pc = "idle" => auto[c].cmds = <<"unload", "load">>
            /\ auto[c].saw \in {"none", "complete"}

\* C15: in enable_autostart a failing unload does not fail the call (load
\* is attempted next) and a failing load raises; in disable_autostart a
\* failing unload is swallowed and the descriptor is unlinked all the same.
C15_LaunchctlFailures ==
    \A c \in Ctrls :
        /\ (auto[c].op = "enable" /\ auto[c].unloadFailed) =>
              /\ auto[c].pc \in {"E_load", "idle", "raised"}
              /\ auto[c].pc = "raised" => auto[c].loadFailed
              /\ auto[c].pc # "E_load" => auto[c].cmds = <<"unload", "load">>
        /\ (auto[c].op = "enable" /\ auto[c].loadFailed) =>
              auto[c].pc = "raised"
        /\ (auto[c].op = "disable" /\ auto[c].unloadFailed) =>
              /\ auto[c].pc \in {"D_unlink", "idle"}
              /\ auto[c].pc = "idle" => auto[c].unlinked

C15_Witness ==
    /\ auto["A"].op = "enable"
    /\ auto["A"].unloadFailed
    /\ auto["A"].pc = "raised"
    /\ auto["A"].cmds = <<"unload", "load">>
    /\ auto["B"].op = "disable"
    /\ auto["B"].unloadFailed
    /\ auto["B"].pc = "idle"
    /\ auto["B"].unlinked

C12_SpawnFailure ==
    /\ [](\A c \in Ctrls :
            ctl[c].err = "spawn" =>
                /\ ctl[c].pc = "raised"
                /\ ctl[c].launched = {}
                /\ "write" \notin ctl[c].idOps)
    /\ [][\A c \in Ctrls :
            (ctl'[c].err = "spawn" /\ ctl'[c] # ctl[c]) =>
                /\ ctl'[c].lastSig = ctl[c].lastSig
                /\ pidFile' = pidFile
                /\ proc' = proc]_vars

C12_Witness ==
    /\ ctl["A"].pc = "raised"
    /\ ctl["A"].err = "spawn"
    /\ ctl["A"].op = "restart"
    /\ ctl["A"].signalled # {}
    /\ ctl["A"].sig # {}
    /\ ctl["A"].lastSig = {}
    /\ pidFile = Absent

\* C19: a reaper sweep in which pgrep failed or a stray could not be
\* signalled raises nothing (only a failed spawn ever raises), and the call
\* around it still does its work: stop_daemon has unlinked the identity
\* file, start_daemon has launched a Renderer, written its pid and returns
\* it.
C19_SweepFailuresContained ==
    \A c \in Ctrls :
        /\ ctl[c].pc = "raised" => ctl[c].err = "spawn"
        /\ (ctl[c].sweepErr /\ Returned(c, {"stop", "restart"})) =>
              "unlink" \in ctl[c].idOps
        /\ (ctl[c].sweepErr /\ Returned(c, {"start", "restart"})) =>
              /\ Cardinality(ctl[c].launched) = 1
              /\ ctl[c].ret = ctl[c].launched
              /\ "write" \in ctl[c].idOps

C19_Witness ==
    /\ Returned("A", {"start"})
    /\ ctl["A"].sweepErr
    /\ ctl["A"].signalled = {}
    /\ \E p \in ctl["A"].ret : Alive(p)
    /\ Cardinality(Live) = NumInit + 1

\* C20: _terminate_pid sends SIGKILL only from its polling loop, after it
\* has sent SIGTERM, to a process that is still there; when the process
\* is gone at the SIGTERM or at a probe it returns at once; it changes a
\* process only by a signal, and it never raises.
C20_Escalation ==
    /\ [](\A c \in Ctrls :
            "SIGKILL" \in ctl[c].tsig => "SIGTERM" \in ctl[c].tsig)
    /\ [][\A c \in Ctrls :
            (ctl'[c] # ctl[c] /\ ctl[c].pc \in {"T_term", "T_poll"}) =>
                /\ ctl'[c].pc # "raised"
                /\ \A p \in ctl[c].target :
                      /\ ~Alive(p) =>
                            /\ proc' = proc
                            /\ ctl'[c].tsig = ctl[c].tsig
                            /\ ctl'[c].pc \notin {"T_term", "T_poll"}
                      /\ "SIGKILL" \in ctl'[c].tsig \ ctl[c].tsig =>
                            /\ ctl[c].pc = "T_poll"
                            /\ "SIGTERM" \in ctl[c].tsig
                            /\ p \in ctl[c].signalled
                            /\ Alive(p)
                      /\ proc'[p] # proc[p] => ctl'[c].tsig # ctl[c].tsig
                /\ \A p \in Pids \ ctl[c].target : proc'[p] = proc[p]]_vars

C20_Witness ==
    /\ ctl["A"].pc \in {"C_loop", "ST_unlink"}
    /\ ctl["A"].tsig = {"SIGTERM", "SIGKILL"}
    /\ \E p \in ctl["A"].signalled : proc[p] = "dead"

\* C17: the step in which a Renderer completes startup leaves the identity
\* file holding that Renderer's pid, and the step in which a Renderer dies
\* (by exiting, by the graceful-stop signal or by the forceful kill) leaves
\* no identity file naming it.
C17_RendererIdentity ==
    [][\A p \in Pids :
          /\ (proc[p] = "writing" /\ proc'[p] = "running") =>
                pidFile' = PidOf(p)
          /\ (Alive(p) /\ proc'[p] = "dead") => pidFile' # PidOf(p)]_vars

C11_LaunchNeedsVideo ==
    /\ [](\A c \in Ctrls : ctl[c].err = "novideo" =>
              ctl[c].op = "none" /\ ctl[c].launched = {})
    /\ [][nextPid' # nextPid =>
              \A v \in EffectiveVideo(rargs'[nextPid], config') :
                  v \in videos]_vars

\* The start_daemon call of c has returned by the branch that returns the
\* recorded pid: it launched nothing and handed back a pid.
NoOpReturn(c) ==
    /\ Returned(c, {"start"})
    /\ ctl[c].launched = {}
    /\ ctl[c].ret # {}

\* C21: start_daemon returns the recorded pid without restarting only when
\* the identity file holds the pid this control process launched when it
\* remembered the signature; a pid some other launch put there is not
\* returned as the unchanged instance.
C21_NoOpOwnPid ==
    \A c \in Ctrls : NoOpReturn(c) => ctl[c].ret = ctl[c].sigPid

\* C22: a start_daemon call of a control process that remembers no
\* signature, made while the recorded Renderer is alive, restarts in full
\* whatever its parameters: the old Renderer is signalled and dead when the
\* call returns, a new one has been launched, and the pid returned is the
\* new one's, not the old one's.
C22_FreshStartRestarts ==
    (/\ Returned("A", {"start"})
     /\ ctl["A"].calls = 1
     /\ ctl["A"].pOld # {}) =>
        /\ ctl["A"].pOld \subseteq ctl["A"].signalled
        /\ \A p \in ctl["A"].pOld : ~Alive(p)
        /\ ctl["A"].launched # {}
        /\ ctl["A"].ret # {}
        /\ ctl["A"].ret \subseteq ctl["A"].launched
        /\ ctl["A"].ret \cap ctl["A"].pOld = {}

\* C23: a control process remembers a signature only if it has launched a
\* Renderer since its last stop_daemon: stop_daemon clears the signature
\* whatever it finds, the signature is set only by the launch path once the
\* identity file is written, it stays cleared from a stop until the next
\* launch, and a start_daemon that follows a stop_daemon launches a new
\* Renderer and returns its pid.
C23_SignatureLifetime ==
    /\ [](\A c \in Ctrls :
            /\ ("unlink" \in ctl[c].idOps /\ "write" \notin ctl[c].idOps) =>
                  ctl[c].lastSig = {}
            /\ (Returned(c, {"start"}) /\ ctl[c].prevOp = "stop") =>
                  /\ ctl[c].launched # {}
                  /\ ctl[c].ret # {}
                  /\ ctl[c].ret \subseteq ctl[c].launched)
    /\ [][\A c \in Ctrls :
            /\ (ctl[c].pc = "ST_begin" /\ ctl'[c].pc # "ST_begin") =>
                  ctl'[c].lastSig = {}
            /\ (ctl'[c].lastSig # ctl[c].lastSig /\ ctl'[c].lastSig # {}) =>
                  /\ ctl[c].pc = "S_write2"
                  /\ ctl'[c].lastSig = ctl[c].sig
                  /\ ctl[c].launched # {}
                  /\ "write" \in ctl[c].idOps]_vars

C23_Witness ==
    /\ Returned("A", {"start"})
    /\ ctl["A"].prevOp = "stop"
    /\ ctl["A"].prevQuiet
    /\ ctl["A"].lastSig # {}
    /\ \E p \in ctl["A"].ret : Alive(p) /\ pidFile = PidOf(p)

\* A Renderer named by the identity file is alive.
RecordedAlive == \E p \in Pids : pidFile = PidOf(p) /\ Alive(p)

\* C24: the steps of a start_daemon call come in order: the liveness
\* classification is reached only from a finished reaper sweep, the launch
\* only from a classification that found nothing running, the identity
\* write only after the launch, and the return of a call that launched only
\* from a finished second sweep that had the new pid in its keep-set.
C24_StartOrder ==
    /\ [](\A c \in Ctrls :
            /\ ctl[c].pc \in {"S_write", "S_write2"} =>
                  ctl[c].newpid # {} /\ ctl[c].newpid \subseteq ctl[c].launched
            /\ ctl[c].cl = "post" =>
                  /\ "write" \in ctl[c].idOps
                  /\ ctl[c].newpid # {}
                  /\ ctl[c].newpid \subseteq ctl[c].keep
            /\ (Returned(c, {"start", "restart"}) /\ ctl[c].launched # {}) =>
                  "write" \in ctl[c].idOps /\ ctl[c].ret \subseteq ctl[c].launched)
    /\ [][\A c \in Ctrls :
            /\ (ctl'[c].pc = "S_running" /\ ctl[c].pc # "S_running") =>
                  ctl[c].pc = "C_loop" /\ ctl[c].cl = "pre" /\ ctl[c].todo = {}
            /\ (ctl'[c].pc = "S_launch" /\ ctl[c].pc # "S_launch") =>
                  ctl[c].pc = "S_running" /\ ~RecordedAlive
            /\ ctl'[c].launched # ctl[c].launched /\ ctl'[c].launched # {} =>
                  ctl[c].pc = "S_launch" /\ "write" \notin ctl[c].idOps
            /\ "write" \in ctl'[c].idOps \ ctl[c].idOps =>
                  ctl[c].pc = "S_write" /\ ctl[c].launched # {}
            /\ (ctl'[c].pc = "S_return" /\ ctl[c].pc # "S_return") =>
                  /\ ctl[c].pc = "C_loop"
                  /\ ctl[c].cl = "post"
                  /\ ctl[c].todo = {}
                  /\ ctl[c].newpid \subseteq ctl[c].keep
            /\ (ctl'[c].pc = "idle" /\ ctl[c].pc # "idle"
                  /\ ctl[c].launched # {}) =>
                  ctl[c].pc = "S_return"]_vars

C24_Witness ==
    /\ Returned("A", {"start"})
    /\ ctl["A"].calls = 1
    /\ "unlink" \notin ctl["A"].idOps
    /\ ctl["A"].signalled # {}
    /\ \E p \in ctl["A"].launched : ctl["A"].ret = {p} /\ Alive(p)

\* C25: when stop_daemon returns no Renderer process is alive, neither the
\* one that was recorded nor any orphan, also when the recorded one ignored
\* SIGTERM or an orphan wrote its own pid while the stop was in progress.
C25_StopLeavesNone ==
    Returned("A", {"stop"}) => Live = {}

\* C26: daemon_running has no effect of its own: the step that evaluates it
\* leaves the process table, the identity file (a stale one too) and the
\* remembered signature as they were and signals nothing; it answers true
\* only for a recorded Renderer that is alive and may be probed, and false,
\* without raising, when there is no such process and when the probe is
\* refused.
C26_ProbeIsPure ==
    [][\A c \in Ctrls :
          (ctl[c].pc = "B_running" /\ ctl'[c] # ctl[c]) =>
              /\ UNCHANGED <<proc, rargs, pidFile, detached, config, nextPid>>
              /\ ctl'[c].lastSig = ctl[c].lastSig
              /\ ctl'[c].signalled = ctl[c].signalled
              /\ ctl'[c].pc = "B_pid"
              /\ ctl'[c].running => RecordedAlive
              /\ ctl'[c].err = "probe" => ~ctl'[c].running
              /\ (~RecordedAlive \/ ctl'[c].err = "probe")
                    \/ ctl'[c].running]_vars

C26_Witness ==
    /\ Returned("A", {"status"})
    /\ ctl["A"].err = "probe"
    /\ ~ctl["A"].running
    /\ ctl["A"].prevOp = "status"
    /\ RecordedAlive

\* C27: set-video and set-speed call restart_daemon, once, exactly when
\* daemon_running() is true at their check; when it is false they change
\* the config document only: nothing is launched and nothing is signalled.
C27_RestartIffRunning ==
    /\ [](\A c \in Ctrls :
            /\ ctl[c].op \in {"set-video", "set-speed"} =>
                  /\ ctl[c].pc = "idle"
                  /\ ctl[c].launched = {}
                  /\ ctl[c].signalled = {}
            /\ ctl[c].op = "restart" => ctl[c].calls = 1
            /\ Returned(c, {"restart"}) => Cardinality(ctl[c].launched) = 1)
    /\ [][\A c \in Ctrls :
            (/\ ctl[c].op = "none"
             /\ ctl'[c].op \in {"restart", "set-video", "set-speed"}) =>
                /\ ctl'[c].op = "restart" <=> RecordedAlive
                /\ UNCHANGED <<proc, rargs, pidFile, detached, nextPid>>]_vars

C27_Witness ==
    /\ ctl["A"].op = "set-speed"
    /\ config.playback_speed = 2
    /\ ~RecordedAlive
    /\ Live # {}

\* C28: reaping leaves the identity record alone: while
\* _cleanup_orphaned_daemons runs, no step of a Renderer it has signalled
\* deletes or changes an identity file that names a live Renderer of its
\* keep-set, and when the sweep that follows a launch has reaped an orphan
\* the launched Renderer is still the one recorded.
C28_ReapKeepsRecord ==
    /\ [](\A c \in Ctrls :
            (ctl[c].pc = "S_return" /\ ctl[c].swept # {}) =>
                \E p \in ctl[c].newpid : pidFile \in {PidOf(p)}
                                            \cup {PidOf(q) : q \in ctl[c].seen})
    /\ [][\A c \in Ctrls : \A q \in ctl[c].swept :
            (/\ proc'[q] # proc[q]
             /\ \E p \in ctl[c].keep : Alive(p) /\ pidFile = PidOf(p)) =>
                pidFile' = pidFile]_vars

\* C29: a snapshot of build_status is consistent in itself, also while
\* Renderers change the identity file: if it says running, its pid is there
\* and is the pid whose liveness was probed.
C29_StatusConsistent ==
    \A c \in Ctrls :
        (Returned(c, {"status"}) /\ ctl[c].running) =>
            ctl[c].spid # {} /\ ctl[c].spid = ctl[c].probed

\* C30: starting or restarting the daemon leaves the persisted config
\* document as it was: once a command has made its own updates, no step of
\* start_daemon, restart_daemon or of a Renderer's startup changes the value
\* that any key of the document (autostart among them) reads as.
C30_ConfigUntouched ==
    [][(\E c \in Ctrls : ctl[c].op # "none") =>
           load_config(config') = load_config(config)]_vars

\* C31: every SIGTERM and SIGKILL that stop_daemon, restart_daemon or the
\* reaper sends goes to a Renderer: a stale identity file whose pid now
\* names an unrelated process never has that process signalled.
C31_SignalsOnlyRenderers ==
    [][\A c \in Ctrls :
          /\ \A p \in ctl'[c].signalled \ ctl[c].signalled :
                proc[p] \in RendererStates
          /\ "SIGKILL" \in ctl'[c].tsig \ ctl[c].tsig =>
                \A p \in ctl[c].target : proc[p] \in RendererStates]_vars

\* C32: after any sequence of set-autostart commands, each of which went
\* through or failed at launchctl load, the autostart flag of the config
\* document says what autostart_enabled() says.
C32_FlagMatchesDescriptor ==
    AutoQuiet =>
        (load_config(config).autostart = "true" <=> autostart_enabled(plist))

====
